---- MODULE Spec2Model ----
(***************************************************************************)
(* Video generation pipeline of tbcinema: the Veo operation client and its *)
(* polling loop (src/services/veoApi.ts), the per-shot orchestration in    *)
(* generateVideoForShot / cancelVideoGeneration                            *)
(* (src/components/OutputSection.tsx) and the IndexedDB blob store         *)
(* (src/utils/indexedDB.ts).                                               *)
(*                                                                         *)
(* JavaScript runs one task at a time: an action of this model is the code *)
(* that runs between two suspension points (an await of fetch, of          *)
(* setTimeout, of an IndexedDB request, of the thumbnail promise).         *)
(*                                                                         *)
(* Messages are sequences of text fragments, so that String.includes is a  *)
(* search for a fragment.  Korean literals of the source are written in    *)
(* English; the source text is quoted next to each of them.                *)
(***************************************************************************)
EXTENDS Integers, Sequences, FiniteSets, TLC

\* ------------------------------------------------------------------ bounds
NumShots == 2
NumJobs == 2
MaxRuns == 1
MaxAttemptsBound == 3

\* maxAttempts: number = 60
DefaultMaxAttempts == 60

Shots == 0..(NumShots - 1)
Jobs == 1..NumJobs

\* ------------------------------------------------------------- value sets
NoStatus == [status |-> "undefined", progress |-> 0, message |-> <<>>, operationName |-> "undefined"]
NoOperation == "undefined"
\* a Blob: its type (a string, as text fragments) and its bytes
Blob(type, bytes) == [type |-> type, bytes |-> bytes]
NoBlob == Blob(<<"null">>, <<>>)
\* a string is the sequence of its text fragments; a value that is not a
\* string is a sequence whose first fragment is its parenthesised type
NoUrl == <<"(undefined)">>
NoImage == "undefined"
NoUri == "undefined"
NoError == [instanceOfError |-> FALSE, message |-> <<"no exception">>]

Mp4Type == <<"video/mp4">>
VideoBlobs == {Blob(Mp4Type, <<0>>), Blob(Mp4Type, <<255>>)}
HttpStatus == "503"
VideoUri == "https://x/y.mp4"

\* new Error(message): every exception raised on the modelled paths
Err(message) == [instanceOfError |-> TRUE, message |-> message]

\* ---------------------------------------------------------------- messages
\* '상태 확인' (veoApi.ts:151, 228)
StatusCheckText == "status check"
\* Texts a remote error object can carry: none (error.message missing or
\* empty), an ordinary text, a text that contains '상태 확인'.
RemoteMessages == {<<>>, <<"quota exceeded">>, <<"upstream ", StatusCheckText, " failed">>}

\* String.prototype.includes
Includes(message, text) == \E k \in 1..Len(message) : message[k] = text

\* errorData.error?.message || fallback
OrFallback(message, fallback) == IF message # <<>> THEN message ELSE fallback

\* TypeError thrown by fetch on a network failure
FetchFailedMsg == <<"Failed to fetch">>
\* `API 오류: ${response.status}`
ApiErrorMsg == <<"API error: ", HttpStatus>>
\* 'Operation name을 받지 못했습니다.'
NoOperationNameMsg == <<"Operation name not received.">>
\* `상태 확인 오류: ${response.status}`
StatusCheckErrorMsg == <<StatusCheckText, " error: ", HttpStatus>>
\* `비디오 다운로드 실패: ${response.status}`
DownloadFailedMsg == <<"video download failed: ", HttpStatus>>
\* '비디오 생성 타임아웃 (5분 초과)'
TimeoutMsg == <<"video generation timeout (over 5 minutes)">>
\* '비디오 URI를 받지 못했습니다. 응답: ' + JSON.stringify(result).slice(0, 500)
MissingUriMsg == <<"video URI not received. response: ", "{...}">>
\* '비디오 생성 준비 중...'
PreparingMsg == <<"preparing video generation...">>
\* '비디오 생성 요청 중...'
RequestingMsg == <<"requesting video generation...">>
\* '생성 시작됨. 대기 중...'
StartedMsg == <<"generation started. waiting...">>
\* `비디오 생성 중... (${attempts}/${maxAttempts})`
PollingMsg(attempts, maxAttempts) == <<"generating video... (", ToString(attempts), "/", ToString(maxAttempts), ")">>
\* '비디오 생성 완료!'
GenerationDoneMsg == <<"video generation complete!">>
\* '비디오 다운로드 중...'
DownloadingMsg == <<"downloading video...">>
\* '완료!'
DoneMsg == <<"done!">>
\* '알 수 없는 오류'
UnknownErrorMsg == <<"unknown error">>
\* `Blob 저장 실패: ${id}`
BlobSaveFailedMsg(id) == <<"Blob save failed: ">> \o id

\* ----------------------------------------------------------------- status
\* VideoGenerationStatus
Status(status, progress, message, operationName) ==
  [status |-> status, progress |-> progress, message |-> message, operationName |-> operationName]

\* ----------------------------------------------------------------- store
\* `video_${index}`, `thumbnail_${index}`
VideoId(index) == <<"video_", ToString(index)>>
ThumbnailId(index) == <<"thumbnail_", ToString(index)>>
StoreIds == {VideoId(i) : i \in Shots} \cup {ThumbnailId(i) : i \in Shots}

\* the JPEG generateThumbnail draws from a video
ThumbnailOf(videoBlob) == Blob(<<"image/jpeg">>, videoBlob.bytes)

VARIABLES
  videoGenerationStatus,  \* React state: shot index -> VideoGenerationStatus
  videoUrls,              \* prop videoUrls: shot index -> URL
  blobStore,              \* IndexedDB object store 'videos': id -> blob
  dbInstance,             \* module variable dbInstance is set (the database is open)
  objectUrls,             \* live object URLs: [id, blob] records
  urlsCreated,            \* number of URL.createObjectURL calls so far
  pc,                     \* job -> suspension point of generateVideoForShot
  index,                  \* job -> argument index
  prompt,                 \* job -> shot.prompts?.video_gen is truthy (until the submit settles)
  startImage,             \* job -> generatedImages[index] (until the submit settles)
  closureVideoUrls,       \* job -> videoUrls captured by the handler's closure
  operationName,          \* job -> operation name returned by generateVideo
  attempts,               \* job -> attempts of pollVideoGeneration
  maxAttempts,            \* job -> maxAttempts of pollVideoGeneration
  videoBlob,              \* job -> blob returned by generateVideoComplete
  videoUri,               \* job -> videoUri of generateVideoComplete, passed to downloadVideo
  thumbnailUrl,           \* job -> id of the objectUrl of generateThumbnail (0: none yet)
  statusLog,              \* history: job -> statuses written by the run
  requests,               \* history: job -> requests issued by the run
  priorNotDone,           \* history: job -> every poll before the latest answered done=false
  lastWrite,              \* history: job -> the latest status the run wrote
  lastPoll,               \* history: job -> outcome of the latest poll
  thrown,                 \* history: job -> exception caught at OutputSection.tsx:236
  cancelled,              \* history: shot -> cancelled in flight, no run since
  cancelledAt,            \* history: job -> where the run was when it was cancelled
  jobLimit,               \* scenario: jobs that may be in flight at once
  ceilings,               \* scenario: values callers pass as maxAttempts
  pollAnswers,            \* scenario: outcomes the remote service gives a poll
  runs,                   \* history: runs of generateVideoForShot started
  generatedImages,        \* prop generatedImages: shot index -> image string
  data,                   \* prop data: the storyboard project
  backupFile,             \* the document handleBackupData handed to triggerDownload last
  lastBackup,             \* history: the video mapping and reader events of the latest backup
  lastRestore,            \* history: the document of the latest restore and its toast
  calls,                  \* history: calls of the save, backup and restore handlers
  opLog,                  \* history: Blob Store operations that settled, in order
  files,                  \* scenario: files the user picks in the upload input
  typedUrls,              \* scenario: strings the user types as a video URL
  documents,              \* scenario: "any" backup file is picked for a restore, or only one's "own"
  imageBatch              \* handleGenerateAllImages: its position, indices, and the image requests

shared == <<videoGenerationStatus, videoUrls, blobStore, dbInstance, objectUrls, urlsCreated>>
locals == <<pc, index, prompt, startImage, closureVideoUrls, operationName, attempts, maxAttempts, videoBlob,
            videoUri, thumbnailUrl>>
history == <<statusLog, lastWrite, requests, priorNotDone, lastPoll, thrown, cancelled, cancelledAt, runs>>
scenario == <<jobLimit, ceilings, pollAnswers>>
\* what generateVideoForShot and cancelVideoGeneration never touch
elsewhere == <<generatedImages, data, backupFile, lastBackup, lastRestore, calls, opLog,
               files, typedUrls, documents, imageBatch>>
vars == <<shared, locals, history, scenario, elsewhere>>

NoRequests == [submit |-> 0, poll |-> 0, download |-> 0, setBlob |-> 0, videosUpdate |-> 0]

\* start images: absent, a data URL, a string the regex of line 188 rejects
StartImages == {NoImage, "data:image/png;base64,AAAA", "blob:local"}

\* startImage.match(/^data:([^;]+);base64,(.+)$/)
StartFrame(image) ==
  IF image = "data:image/png;base64,AAAA"
  THEN [mimeType |-> "image/png", base64 |-> "AAAA"]
  ELSE [mimeType |-> "undefined", base64 |-> "undefined"]

\* ------------------------------------------------- the code between awaits
\* The effect of one task of job j is a record: the job's locals after the
\* task, the status writes it made in order, the store puts, the mapping
\* update.  Commit applies it.
Same(j) ==
  [pc |-> pc[j], operationName |-> operationName[j], attempts |-> attempts[j],
   maxAttempts |-> maxAttempts[j], videoBlob |-> videoBlob[j], videoUri |-> videoUri[j],
   writes |-> <<>>, requests |-> requests[j],
   lastPoll |-> lastPoll[j], priorNotDone |-> priorNotDone[j], thrown |-> thrown[j],
   puts |-> <<>>, dbInstance |-> dbInstance, createUrl |-> "no",
   thumbnailUrl |-> thumbnailUrl[j], revokeUrl |-> 0]

\* a status passed to onProgress (OutputSection.tsx:208-210)
Emit(status) == [value |-> status, via |-> "onProgress"]
\* what the history keeps of a write: its status name and its origin
Logged(w) == [status |-> w.value.status, via |-> w.via]
\* a status set by generateVideoForShot itself
Set(status) == [value |-> status, via |-> "setState"]

\* catch block of generateVideoForShot
Caught(j, n, error) ==
  LET message == IF error.instanceOfError THEN error.message ELSE UnknownErrorMsg
  IN [n EXCEPT !.pc = "done",
               !.writes = @ \o <<Set(Status("error", 0, message, NoOperation))>>,
               !.thrown = error]

\* variant: while (attempts <= maxAttempts)
LoopConditionInclusive(a, m) == a <= m
\* while (attempts < maxAttempts)
LoopCondition(a, m) == a < m

\* variant: attempts is not incremented
LoopHeadUncounted(j, n) ==
  IF LoopCondition(n.attempts, n.maxAttempts)
  THEN [n EXCEPT !.pc = "poll", !.requests.poll = @ + 1]
  ELSE Caught(j, n, Err(TimeoutMsg))
\* head of the polling loop: next checkVideoOperation request, or the
\* timeout thrown after the loop
LoopHead(j, n) ==
  IF LoopCondition(n.attempts, n.maxAttempts)
  THEN [n EXCEPT !.pc = "poll", !.attempts = @ + 1, !.requests.poll = @ + 1]
  ELSE Caught(j, n, Err(TimeoutMsg))

\* Math.min(Math.round((attempts / maxAttempts) * 80), 80)
Min(a, b) == IF a < b THEN a ELSE b
Round(num, den) == (2 * num + den) \div (2 * den)
ProgressPercent(a, m) == Min(Round(a * 80, m), 80)

\* is the exception one the polling loop retries?
Retried(error) == ~(error.instanceOfError /\ ~Includes(error.message, StatusCheckText))

\* catch block of pollVideoGeneration
PollCatch(j, n, error) ==
  IF Retried(error) THEN [n EXCEPT !.pc = "wait"] ELSE Caught(j, n, error)

\* success payloads of a completed operation: the locator under each of the
\* four known shapes (absent, or a URI)
Payload(samples, generated, videos, top) ==
  [generatedSamples |-> samples, generatedVideos |-> generated, videos |-> videos, topGeneratedVideos |-> top]
Payloads ==
  {Payload(NoUri, NoUri, NoUri, NoUri),
   Payload(NoUri, VideoUri, NoUri, NoUri),
   Payload(VideoUri, NoUri, NoUri, NoUri)}

\* a || b
Or(a, b) == IF a \notin {NoUri, ""} THEN a ELSE b
\* variant: response.generatedVideos is probed before generateVideoResponse
ExtractVideoUriSwapped(p) ==
  Or(p.generatedVideos, Or(p.generatedSamples, Or(p.videos, p.topGeneratedVideos)))
\* the optional chain of generateVideoComplete
ExtractVideoUri(p) ==
  Or(p.generatedSamples, Or(p.generatedVideos, Or(p.videos, p.topGeneratedVideos)))

\* what the remote service can answer to one poll
NotDoneResponse == [done |-> FALSE, hasError |-> FALSE, errorMessage |-> <<>>, payload |-> Payload(NoUri, NoUri, NoUri, NoUri)]
OperationResponses ==
  {NotDoneResponse}
  \cup {[done |-> TRUE, hasError |-> TRUE, errorMessage |-> m, payload |-> Payload(NoUri, NoUri, NoUri, NoUri)] : m \in RemoteMessages}
  \cup {[done |-> TRUE, hasError |-> FALSE, errorMessage |-> <<>>, payload |-> p] : p \in Payloads}

\* outcomes of checkVideoOperation: fetch rejects, a non-ok response with
\* the provider's message (possibly none), an ok response
PollOutcomes ==
  {[kind |-> "rejected", message |-> <<>>, result |-> NotDoneResponse]}
  \cup {[kind |-> "http", message |-> m, result |-> NotDoneResponse] : m \in RemoteMessages}
  \cup {[kind |-> "ok", message |-> <<>>, result |-> r] : r \in OperationResponses}

NoPoll == [kind |-> "none", message |-> <<>>, result |-> NotDoneResponse]

\* checkVideoOperation: the exception it throws, NoError when it returns
CheckVideoOperationError(o) ==
  CASE o.kind = "rejected" -> Err(FetchFailedMsg)
    [] o.kind = "http" -> Err(OrFallback(o.message, StatusCheckErrorMsg))
    [] OTHER -> NoError

\* variant: the download is requested without the check of videoUri
AfterPollingUnchecked(j, n, result) ==
  [n EXCEPT !.pc = "download",
            !.videoUri = ExtractVideoUri(result.payload),
            !.writes = @ \o <<Emit(Status("downloading", 90, DownloadingMsg, n.operationName))>>,
            !.requests.download = @ + 1]
\* rest of generateVideoComplete after pollVideoGeneration returned result,
\* up to the await of downloadVideo
AfterPolling(j, n, result) ==
  LET uri == ExtractVideoUri(result.payload)
  IN IF uri \in {NoUri, ""}
     THEN Caught(j, n, Err(MissingUriMsg))
     ELSE [n EXCEPT !.pc = "download",
                    !.videoUri = uri,
                    !.writes = @ \o <<Emit(Status("downloading", 90, DownloadingMsg, n.operationName))>>,
                    !.requests.download = @ + 1]

\* body of the try block of pollVideoGeneration for one answer
PollBody(j, n, o) ==
  LET e == CheckVideoOperationError(o)
      result == o.result
      a == n.attempts
      m == n.maxAttempts
  IN IF e # NoError THEN PollCatch(j, n, e)
     ELSE IF result.done
     THEN IF result.hasError
          THEN PollCatch(j, [n EXCEPT !.writes = @ \o <<Emit(Status("error", 0, result.errorMessage, n.operationName))>>],
                         Err(result.errorMessage))
          ELSE AfterPolling(j, [n EXCEPT !.writes = @ \o <<Emit(Status("completed", 100, GenerationDoneMsg, n.operationName))>>],
                            result)
     ELSE [n EXCEPT !.pc = "wait",
                    !.writes = @ \o <<Emit(Status("polling", ProgressPercent(a, m), PollingMsg(a, m), n.operationName))>>]

\* URL.createObjectURL
NewUrl == <<"blob:", ToString(urlsCreated + 1)>>

\* variant: the new map holds the written entry only
UpsertStatusReplacing(prev, i, status) ==
  [k \in Shots |-> IF k = i THEN status ELSE NoStatus]
\* prev => ({ ...prev, [index]: status })
UpsertStatus(prev, i, status) ==
  [prev EXCEPT ![i] = status]

Commit(j, n) ==
  /\ pc' = [pc EXCEPT ![j] = n.pc]
  /\ operationName' = [operationName EXCEPT ![j] = n.operationName]
  /\ attempts' = [attempts EXCEPT ![j] = n.attempts]
  /\ maxAttempts' = [maxAttempts EXCEPT ![j] = n.maxAttempts]
  /\ videoBlob' = [videoBlob EXCEPT ![j] = n.videoBlob]
  /\ videoUri' = [videoUri EXCEPT ![j] = n.videoUri]
  /\ videoGenerationStatus' =
       IF n.writes = <<>> THEN videoGenerationStatus
       ELSE UpsertStatus(videoGenerationStatus, index[j], n.writes[Len(n.writes)].value)
  /\ statusLog' = [statusLog EXCEPT ![j] = @ \o [k \in 1..Len(n.writes) |-> Logged(n.writes[k])]]
  /\ lastWrite' = [lastWrite EXCEPT ![j] = IF n.writes = <<>> THEN @ ELSE n.writes[Len(n.writes)].value]
  /\ requests' = [requests EXCEPT ![j] = n.requests]
  /\ lastPoll' = [lastPoll EXCEPT ![j] = n.lastPoll]
  /\ priorNotDone' = [priorNotDone EXCEPT ![j] = n.priorNotDone]
  /\ thrown' = [thrown EXCEPT ![j] = n.thrown]
  /\ blobStore' = [id \in StoreIds |->
                     IF \E k \in 1..Len(n.puts) : n.puts[k].id = id
                     THEN (CHOOSE p \in {n.puts[k] : k \in 1..Len(n.puts)} : p.id = id).blob
                     ELSE blobStore[id]]
  /\ dbInstance' = n.dbInstance
  /\ thumbnailUrl' = [thumbnailUrl EXCEPT ![j] = n.thumbnailUrl]
  /\ objectUrls' = {u \in objectUrls : u.id # n.revokeUrl}
                     \cup (IF n.createUrl = "no" THEN {} ELSE {[id |-> urlsCreated + 1, blob |-> n.videoBlob]})
  /\ urlsCreated' = IF n.createUrl = "no" THEN urlsCreated ELSE urlsCreated + 1
  /\ videoUrls' = IF n.createUrl = "videoUrl"
                  THEN [closureVideoUrls[j] EXCEPT ![index[j]] = NewUrl]
                  ELSE videoUrls

\* name the remote service gives the operation
OperationName == "operations/op1"

\* outcomes of the generateVideo request: fetch rejects, a non-ok response
\* with the provider's message (possibly none), an ok response with or
\* without data.name
SubmitOutcomes ==
  {[kind |-> "rejected", message |-> <<>>, name |-> NoOperation]}
  \cup {[kind |-> "http", message |-> m, name |-> NoOperation] : m \in RemoteMessages}
  \cup {[kind |-> "ok", message |-> <<>>, name |-> nm] : nm \in {NoOperation, OperationName}}

\* generateVideo: the exception it throws, NoError when it returns data.name
GenerateVideoError(o) ==
  CASE o.kind = "rejected" -> Err(FetchFailedMsg)
    [] o.kind = "http" -> Err(OrFallback(o.message, ApiErrorMsg))
    [] o.kind = "ok" /\ o.name = NoOperation -> Err(NoOperationNameMsg)
    [] OTHER -> NoError

\* outcomes of the downloadVideo request
DownloadOutcomes ==
  {[kind |-> "rejected", blob |-> NoBlob], [kind |-> "http", blob |-> NoBlob]}
  \cup {[kind |-> "ok", blob |-> b] : b \in VideoBlobs}

\* downloadVideo: the exception it throws, NoError when it returns the blob
DownloadVideoError(o) ==
  CASE o.kind = "rejected" -> Err(FetchFailedMsg)
    [] o.kind = "http" -> Err(DownloadFailedMsg)
    [] OTHER -> NoError

\* 'IndexedDB 열기 실패'
DbOpenFailedMsg == <<"IndexedDB open failed">>
\* outcomes of setBlob: stored, the put request fails, initDB fails (which
\* it cannot once dbInstance is set)
SetBlobOutcomes == IF dbInstance THEN {"stored", "putFailed"} ELSE {"stored", "putFailed", "openFailed"}
SetBlobError(o, id) ==
  CASE o = "putFailed" -> Err(BlobSaveFailedMsg(id))
    [] o = "openFailed" -> Err(DbOpenFailedMsg)
    [] OTHER -> NoError
\* initDB: dbInstance after the call
InitDB(o) == dbInstance \/ o # "openFailed"

\* end of the try block of generateVideoForShot, after the thumbnail step
Finish(j, n) ==
  [n EXCEPT !.pc = "done",
            !.createUrl = "videoUrl",
            !.requests.videosUpdate = @ + 1,
            !.writes = @ \o <<Set(Status("completed", 100, DoneMsg, NoOperation))>>]

\* every poll the run has been answered so far said done=false
AnsweredNotDone(o) == o.kind = "ok" /\ ~o.result.done
AllNotDone(j) == priorNotDone[j] /\ (lastPoll[j] = NoPoll \/ AnsweredNotDone(lastPoll[j]))

\* the jobs between invocation and return
Running == {j \in Jobs : pc[j] \notin {"idle", "returned", "done"}}
InFlight(i) == \E j \in Running : index[j] = i

\* variant: !prompt && startImage
MissingInputsNegationLost(p, img) == ~p /\ img # NoImage
\* !prompt && !startImage
MissingInputs(p, img) == ~p /\ img = NoImage

\* ---------------------------------------------------------------- actions
\* generateVideoForShot(index) up to the await of the submit request
Invoke(j, i, key, p, img) ==
  /\ pc[j] \in {"idle", "returned", "done"}
  /\ \A k \in Jobs : k < j => k \in Running
  /\ Cardinality(Running) < jobLimit
  /\ runs < MaxRuns * jobLimit
  /\ runs' = runs + 1
  /\ index' = [index EXCEPT ![j] = i]
  /\ prompt' = [prompt EXCEPT ![j] = p]
  /\ startImage' = [startImage EXCEPT ![j] = img]
  /\ closureVideoUrls' = [closureVideoUrls EXCEPT ![j] = videoUrls]
  /\ operationName' = [operationName EXCEPT ![j] = NoOperation]
  /\ attempts' = [attempts EXCEPT ![j] = 0]
  /\ maxAttempts' = [maxAttempts EXCEPT ![j] = 0]
  /\ videoBlob' = [videoBlob EXCEPT ![j] = NoBlob]
  /\ videoUri' = [videoUri EXCEPT ![j] = NoUri]
  /\ thumbnailUrl' = [thumbnailUrl EXCEPT ![j] = 0]
  /\ priorNotDone' = [priorNotDone EXCEPT ![j] = TRUE]
  /\ lastPoll' = [lastPoll EXCEPT ![j] = NoPoll]
  /\ thrown' = [thrown EXCEPT ![j] = NoError]
  /\ cancelledAt' = [cancelledAt EXCEPT ![j] = "never"]
  /\ UNCHANGED <<videoUrls, blobStore, dbInstance, objectUrls, urlsCreated, scenario, elsewhere>>
  /\ IF MissingInputs(p, img)
     THEN /\ pc' = [pc EXCEPT ![j] = "returned"]
          /\ statusLog' = [statusLog EXCEPT ![j] = <<>>]
          /\ requests' = [requests EXCEPT ![j] = NoRequests]
          /\ lastWrite' = [lastWrite EXCEPT ![j] = NoStatus]
          /\ UNCHANGED <<videoGenerationStatus, cancelled>>
     ELSE IF ~key
     THEN /\ pc' = [pc EXCEPT ![j] = "returned"]
          /\ statusLog' = [statusLog EXCEPT ![j] = <<>>]
          /\ requests' = [requests EXCEPT ![j] = NoRequests]
          /\ lastWrite' = [lastWrite EXCEPT ![j] = NoStatus]
          /\ UNCHANGED <<videoGenerationStatus, cancelled>>
     ELSE /\ videoGenerationStatus' =
               [videoGenerationStatus EXCEPT ![i] = Status("generating", 5, RequestingMsg, NoOperation)]
          /\ statusLog' = [statusLog EXCEPT ![j] =
               <<Logged(Set(Status("generating", 0, PreparingMsg, NoOperation))),
                 Logged(Emit(Status("generating", 5, RequestingMsg, NoOperation)))>>]
          /\ lastWrite' = [lastWrite EXCEPT ![j] = Status("generating", 5, RequestingMsg, NoOperation)]
          /\ requests' = [requests EXCEPT ![j] = [NoRequests EXCEPT !.submit = 1]]
          /\ pc' = [pc EXCEPT ![j] = "submit"]
          /\ cancelled' = [cancelled EXCEPT ![i] = FALSE]

\* cancelVideoGeneration(index)
Cancel(i) ==
  /\ videoGenerationStatus' = [videoGenerationStatus EXCEPT ![i] = Status("idle", 0, <<>>, NoOperation)]
  /\ cancelled' = [cancelled EXCEPT ![i] = @ \/ InFlight(i)]
  /\ cancelledAt' = [j \in Jobs |-> IF j \in Running /\ index[j] = i /\ cancelledAt[j] = "never" THEN pc[j] ELSE cancelledAt[j]]
  /\ UNCHANGED <<videoUrls, blobStore, dbInstance, objectUrls, urlsCreated, locals, statusLog, lastWrite, requests, priorNotDone, lastPoll, thrown, runs, scenario, elsewhere>>

\* the submit request settles: rest of generateVideo, generateVideoComplete
\* up to the first checkVideoOperation request of pollVideoGeneration
SubmitResponse(j) ==
  /\ pc[j] = "submit"
  /\ \E o \in SubmitOutcomes :
       LET e == GenerateVideoError(o)
           n(m) == [Same(j) EXCEPT !.operationName = o.name,
                                   !.writes = <<Emit(Status("polling", 10, StartedMsg, o.name))>>,
                                   !.attempts = 0,
                                   !.maxAttempts = m]
       IN IF e # NoError
          THEN Commit(j, Caught(j, Same(j), e))
          ELSE \E m \in ceilings : Commit(j, LoopHead(j, n(m)))
  /\ prompt' = [prompt EXCEPT ![j] = FALSE]
  /\ startImage' = [startImage EXCEPT ![j] = NoImage]
  /\ UNCHANGED <<index, closureVideoUrls, cancelled, cancelledAt, runs, scenario, elsewhere>>

\* a checkVideoOperation request settles: one pass of the try/catch of
\* pollVideoGeneration and, when it returns, generateVideoComplete up to the
\* download request
PollResponse(j) ==
  /\ pc[j] = "poll"
  /\ \E o \in pollAnswers : Commit(j, PollBody(j, [Same(j) EXCEPT !.lastPoll = o, !.priorNotDone = AllNotDone(j)], o))
  /\ UNCHANGED <<index, prompt, startImage, closureVideoUrls, cancelled, cancelledAt, runs, scenario, elsewhere>>

\* the setTimeout of pollVideoGeneration fires
TimerFires(j) ==
  /\ pc[j] = "wait"
  /\ Commit(j, LoopHead(j, Same(j)))
  /\ UNCHANGED <<index, prompt, startImage, closureVideoUrls, cancelled, cancelledAt, runs, scenario, elsewhere>>

\* the download request settles: rest of generateVideoComplete and
\* generateVideoForShot up to the await of setBlob(videoId, videoBlob)
DownloadResponse(j) ==
  /\ pc[j] = "download"
  /\ \E o \in DownloadOutcomes :
       LET e == DownloadVideoError(o)
       IN IF e # NoError
          THEN Commit(j, Caught(j, Same(j), e))
          ELSE Commit(j, [Same(j) EXCEPT !.pc = "setBlob",
                                         !.videoBlob = o.blob,
                                         !.writes = <<Emit(Status("completed", 100, DoneMsg, operationName[j]))>>,
                                         !.requests.setBlob = @ + 1])
  /\ UNCHANGED <<index, prompt, startImage, closureVideoUrls, cancelled, cancelledAt, runs, scenario, elsewhere>>

\* setBlob(videoId, videoBlob) settles; generateThumbnail runs up to
\* video.src = objectUrl
SetBlobResponse(j) ==
  /\ pc[j] = "setBlob"
  /\ \E o \in SetBlobOutcomes :
       LET e == SetBlobError(o, VideoId(index[j]))
       IN IF e # NoError
          THEN Commit(j, Caught(j, [Same(j) EXCEPT !.dbInstance = InitDB(o)], e))
          ELSE Commit(j, [Same(j) EXCEPT !.pc = "thumbnail",
                                         !.createUrl = "objectUrl",
                                         !.thumbnailUrl = urlsCreated + 1,
                                         !.dbInstance = InitDB(o),
                                         !.puts = <<[id |-> VideoId(index[j]), blob |-> videoBlob[j]]>>])
  /\ UNCHANGED <<index, prompt, startImage, closureVideoUrls, cancelled, cancelledAt, runs, scenario, elsewhere>>

\* video.onloadedmetadata: the canvas is sized and the seek to 0.1 s starts
LoadedMetadata(j) ==
  /\ pc[j] = "thumbnail"
  /\ Commit(j, [Same(j) EXCEPT !.pc = "seek"])
  /\ UNCHANGED <<index, prompt, startImage, closureVideoUrls, cancelled, cancelledAt, runs, scenario, elsewhere>>

\* video.onseeked: with a 2d context the frame is drawn and canvas.toBlob
\* starts; without one (getContext returned null) the handler does nothing
Seeked(j) ==
  /\ pc[j] = "seek"
  /\ \E ctx \in BOOLEAN : Commit(j, [Same(j) EXCEPT !.pc = IF ctx THEN "toBlob" ELSE "seeked"])
  /\ UNCHANGED <<index, prompt, startImage, closureVideoUrls, cancelled, cancelledAt, runs, scenario, elsewhere>>

\* video.onerror: the objectUrl is revoked and the promise rejected; the
\* catch of OutputSection.tsx:221 swallows the rejection.  The callback of a
\* toBlob under way finds the promise settled.
VideoError(j) ==
  /\ pc[j] \in {"thumbnail", "seek", "toBlob"}
  /\ Commit(j, Finish(j, [Same(j) EXCEPT !.revokeUrl = thumbnailUrl[j]]))
  /\ UNCHANGED <<index, prompt, startImage, closureVideoUrls, cancelled, cancelledAt, runs, scenario, elsewhere>>


\* the callback of canvas.toBlob: the objectUrl is revoked; with a blob the
\* promise resolves and setBlob(`thumbnail_${index}`, thumbnailBlob) is
\* requested, without one it rejects
ToBlobCallback(j) ==
  /\ pc[j] = "toBlob"
  /\ \E blob \in BOOLEAN :
       IF blob
       THEN Commit(j, [Same(j) EXCEPT !.pc = "setThumbnail", !.revokeUrl = thumbnailUrl[j],
                                      !.requests.setBlob = @ + 1])
       ELSE Commit(j, Finish(j, [Same(j) EXCEPT !.revokeUrl = thumbnailUrl[j]]))
  /\ UNCHANGED <<index, prompt, startImage, closureVideoUrls, cancelled, cancelledAt, runs, scenario, elsewhere>>

\* setBlob(`thumbnail_${index}`, thumbnailBlob) settles
SetThumbnailResponse(j) ==
  /\ pc[j] = "setThumbnail"
  /\ \E o \in SetBlobOutcomes :
       IF SetBlobError(o, ThumbnailId(index[j])) # NoError
       THEN Commit(j, Finish(j, [Same(j) EXCEPT !.dbInstance = InitDB(o)]))
       ELSE Commit(j, Finish(j, [Same(j) EXCEPT !.dbInstance = InitDB(o), !.puts =
              <<[id |-> ThumbnailId(index[j]), blob |-> ThumbnailOf(videoBlob[j])]>>]))
  /\ UNCHANGED <<index, prompt, startImage, closureVideoUrls, cancelled, cancelledAt, runs, scenario, elsewhere>>

\* --------------------------------------------------- backup and restore
\* bounds of the backup and restore scenarios
MaxBlobLen == 2
MaxSaves == 2
MaxBackups == 1
MaxRestores == 1

NullValue == <<"(null)">>

IsString(v) == v = <<>> \/ v[1] \notin {"(undefined)", "(null)", "(number)"}
\* a value in the condition of an if
Truthy(v) == IsString(v) /\ v # <<>>
\* String.prototype.startsWith for a prefix that is one fragment
StartsWith(v, prefix) == v # <<>> /\ v[1] = prefix

\* the 64 digits of base64
Base64Chars ==
  <<"A", "B", "C", "D", "E", "F", "G", "H", "I", "J", "K", "L", "M",
    "N", "O", "P", "Q", "R", "S", "T", "U", "V", "W", "X", "Y", "Z",
    "a", "b", "c", "d", "e", "f", "g", "h", "i", "j", "k", "l", "m",
    "n", "o", "p", "q", "r", "s", "t", "u", "v", "w", "x", "y", "z",
    "0", "1", "2", "3", "4", "5", "6", "7", "8", "9", "+", "/">>
Digit(n) == Base64Chars[n + 1]
DigitValue(c) == (CHOOSE k \in 1..64 : Base64Chars[k] = c) - 1

\* the base64 of a byte sequence, as FileReader.readAsDataURL writes it
RECURSIVE Base64Encode(_)
Base64Encode(bytes) ==
  IF bytes = <<>> THEN <<>>
  ELSE IF Len(bytes) = 1
  THEN <<Digit(bytes[1] \div 4), Digit((bytes[1] % 4) * 16), "=", "=">>
  ELSE IF Len(bytes) = 2
  THEN LET n == bytes[1] * 256 + bytes[2]
       IN <<Digit(n \div 1024), Digit((n \div 16) % 64), Digit((n % 16) * 4), "=">>
  ELSE LET n == bytes[1] * 65536 + bytes[2] * 256 + bytes[3]
       IN <<Digit(n \div 262144), Digit((n \div 4096) % 64), Digit((n \div 64) % 64), Digit(n % 64)>>
          \o Base64Encode(SubSeq(bytes, 4, Len(bytes)))

\* the bytes of a sequence of base64 digits (leftover bits are dropped)
RECURSIVE DecodeDigits(_)
DecodeDigits(digits) ==
  IF Len(digits) < 2 THEN <<>>
  ELSE IF Len(digits) = 2
  THEN <<(DigitValue(digits[1]) * 64 + DigitValue(digits[2])) \div 16>>
  ELSE IF Len(digits) = 3
  THEN LET n == (DigitValue(digits[1]) * 4096 + DigitValue(digits[2]) * 64 + DigitValue(digits[3])) \div 4
       IN <<n \div 256, n % 256>>
  ELSE LET n == DigitValue(digits[1]) * 262144 + DigitValue(digits[2]) * 4096
                + DigitValue(digits[3]) * 64 + DigitValue(digits[4])
       IN <<n \div 65536, (n \div 256) % 256, n % 256>> \o DecodeDigits(SubSeq(digits, 5, Len(digits)))

\* atob: up to two '=' are dropped from a text whose length is a multiple
\* of four; a length of 4k+1 or a character that is no digit throws
Atob(text) ==
  LET n == Len(text)
      padding == IF n > 0 /\ n % 4 = 0 /\ text[n] = "="
                 THEN (IF text[n - 1] = "=" THEN 2 ELSE 1)
                 ELSE 0
      digits == SubSeq(text, 1, n - padding)
  IN IF Len(digits) % 4 = 1 \/ \E k \in 1..Len(digits) : \A d \in 1..64 : Base64Chars[d] # digits[k]
     THEN [ok |-> FALSE, bytes |-> <<>>]
     ELSE [ok |-> TRUE, bytes |-> DecodeDigits(digits)]

\* index of the first fragment of text equal to c, Len(text) + 1 if none
RECURSIVE IndexOf(_, _, _)
IndexOf(text, c, from) ==
  IF from > Len(text) THEN Len(text) + 1
  ELSE IF text[from] = c THEN from
  ELSE IndexOf(text, c, from + 1)

\* const [header, data] = base64.split(','); atob(data) decodes
\* String(undefined) when there is no comma
SplitComma(text) ==
  LET first == IndexOf(text, ",", 1)
      second == IndexOf(text, ",", first + 1)
  IN [header |-> SubSeq(text, 1, first - 1),
      data |-> IF first > Len(text) THEN <<"u", "n", "d", "e", "f", "i", "n", "e", "d">>
               ELSE SubSeq(text, first + 1, second - 1)]

\* header.match(/data:([^;]+)/) ? mimeMatch[1] : 'video/mp4', for a header
\* that starts with 'data:'
MimeType(header) ==
  LET semicolon == IndexOf(header, ";", 2)
  IN IF semicolon = 2 THEN Mp4Type ELSE SubSeq(header, 2, semicolon - 1)

\* events of the FileReader of blobUrlToBase64: loadend with the data URL
\* of the File API, loadend with the bare 'data:' that Chromium gives an
\* empty blob, error
ReadAsDataURL(blob, event) ==
  IF event = "error" THEN NullValue
  ELSE IF blob.bytes = <<>> /\ event = "loadendBare" THEN <<"data:">>
  ELSE <<"data:">> \o blob.type \o <<";", "base64", ",">> \o Base64Encode(blob.bytes)

\* fetch(blobUrl) and response.blob(): the blob the URL resolves to
\* (NoBlob when it resolves to nothing)
Resolve(url) ==
  IF StartsWith(url, "blob:") /\ Len(url) > 1 /\ \E u \in objectUrls : ToString(u.id) = url[2]
  THEN (CHOOSE u \in objectUrls : ToString(u.id) = url[2]).blob
  ELSE NoBlob

\* variant: a blob: URL is written to the document as it is
BlobUrlToBase64Verbatim(blobUrl, event) == blobUrl
BlobUrlToBase64(blobUrl, event) ==
  IF StartsWith(blobUrl, "data:") THEN blobUrl
  ELSE IF StartsWith(blobUrl, "blob:")
  THEN IF Resolve(blobUrl) = NoBlob THEN NullValue
       ELSE ReadAsDataURL(Resolve(blobUrl), event)
  ELSE blobUrl

\* base64ToBlobUrl(base64) when the next object URL is blob:<id>: the
\* string it returns and the blob it created for it (NoBlob when none)
Base64ToBlobUrl(base64, id) ==
  IF StartsWith(base64, "blob:") THEN [url |-> <<>>, blob |-> NoBlob]
  ELSE IF StartsWith(base64, "http://") \/ StartsWith(base64, "https://")
  THEN [url |-> base64, blob |-> NoBlob]
  ELSE IF ~StartsWith(base64, "data:") THEN [url |-> <<>>, blob |-> NoBlob]
  ELSE LET parts == SplitComma(base64)
           byteCharacters == Atob(parts.data)
       IN IF ~byteCharacters.ok THEN [url |-> <<>>, blob |-> NoBlob]
          ELSE [url |-> <<"blob:", ToString(id)>>,
                blob |-> Blob(MimeType(parts.header), byteCharacters.bytes)]

\* JSON object keys: String(index) on stringify, parseInt(key, 10) on restore
Key(i) == ToString(i)
DocKeys == {Key(i) : i \in Shots}
ParseInt(key) == CHOOSE i \in Shots : Key(i) = key
\* JSON.stringify of a mapping, and the mapping a forEach over
\* Object.entries rebuilds from it
Stringify(mapping) == [k \in DocKeys |-> mapping[ParseInt(k)]]
NoEntries == [k \in DocKeys |-> NoUrl]
Size(entries) == Cardinality({k \in DOMAIN entries : entries[k] # NoUrl})

\* a field of the document that holds a mapping; an absent (or null) field
Field(entries) == [defined |-> TRUE, entries |-> entries]
NoField == [defined |-> FALSE, entries |-> NoEntries]

\* the project (StoryboardData): only storyboard_sequence is looked at
StoryboardData(title, sequence) ==
  [defined |-> TRUE, project_meta |-> title, storyboard_sequence |-> sequence]
NoData == [defined |-> FALSE, project_meta |-> "(undefined)", storyboard_sequence |-> <<"(undefined)">>]
ProjectA == StoryboardData("project A", <<"shot A1", "shot A2">>)
ProjectB == StoryboardData("project B", <<"shot B1">>)

\* the backup file: the text parses as JSON into these fields, or does not
BackupData(version, d, images, videoBase64, legacy) ==
  [parses |-> TRUE, version |-> version, data |-> d,
   generatedImages |-> images, videoBase64 |-> videoBase64, videoUrls |-> legacy]
Unparsable ==
  [parses |-> FALSE, version |-> "(undefined)", data |-> NoData,
   generatedImages |-> NoField, videoBase64 |-> NoField, videoUrls |-> NoField]

\* handleBackupData for the reader events the entries meet.  The handler
\* reads data, generatedImages and videoUrls of the render that called it
\* and awaits one entry at a time; nothing revokes an object URL of the
\* video mapping meanwhile, so the document is the one computed at the call.
HandleBackupData(events) ==
  LET videoCount == Cardinality({i \in Shots : videoUrls[i] # NoUrl})
      converted == [k \in DocKeys |->
                      LET url == videoUrls[ParseInt(k)]
                          base64 == BlobUrlToBase64(url, events[ParseInt(k)])
                      IN IF url # NoUrl /\ Truthy(base64) THEN base64 ELSE NoUrl]
  IN IF videoCount = 0
     THEN BackupData("1.1", data, Field(Stringify(generatedImages)), Field(NoEntries), NoField)
     ELSE BackupData("1.1", data, Field(Stringify(generatedImages)), Field(converted), NoField)

\* variant: only the current field name is read
VideoSourceCurrentOnly(backupData) == backupData.videoBase64
\* backupData.videoBase64 || backupData.videoUrls (an object is truthy,
\* also an empty one)
VideoSource(backupData) ==
  IF backupData.videoBase64.defined THEN backupData.videoBase64 ELSE backupData.videoUrls

\* the forEach of OutputSection.tsx:626-636 from shot index i on, entries in
\* ascending key order.  acc: the mapping built so far, the blobs object
\* URLs were created for, whether an entry threw (url.substring of a value
\* that is no string).
RECURSIVE RestoreVideos(_, _, _)
RestoreVideos(entries, i, acc) ==
  IF i = NumShots THEN acc
  ELSE LET url == entries[Key(i)]
       IN IF url = NoUrl THEN RestoreVideos(entries, i + 1, acc)
          ELSE IF ~IsString(url) THEN [acc EXCEPT !.threw = TRUE]
          ELSE LET r == Base64ToBlobUrl(url, urlsCreated + Len(acc.created) + 1)
                   created == IF r.blob = NoBlob THEN acc.created ELSE Append(acc.created, r.blob)
               IN IF Truthy(r.url)
                  THEN RestoreVideos(entries, i + 1,
                         [acc EXCEPT !.numericVideos[ParseInt(Key(i))] = r.url,
                                     !.created = created])
                  ELSE RestoreVideos(entries, i + 1, [acc EXCEPT !.created = created])

RestoreFailedToast == "restore failed. check the file format."
RestoredToast == "restored! (videos n)"
RestoredNoVideosToast == "restored! (no videos)"

\* reader.onload of handleRestoreData (OutputSection.tsx:598-651) for the
\* parsed file: the mappings given to onImagesUpdate and onVideosUpdate (the
\* present ones when the callback is not called), the blobs object URLs were
\* created for, the toast
HandleRestoreData(backupData) ==
  LET unchanged == [generatedImages |-> generatedImages, videoUrls |-> videoUrls,
                    created |-> <<>>, toast |-> RestoreFailedToast]
      numericImages == [i \in Shots |-> backupData.generatedImages.entries[Key(i)]]
      images == IF backupData.generatedImages.defined THEN numericImages ELSE generatedImages
      videoSource == VideoSource(backupData)
      r == RestoreVideos(videoSource.entries, 0,
             [numericVideos |-> [i \in Shots |-> NoUrl], created |-> <<>>, threw |-> FALSE])
      restoredCount == Cardinality({i \in Shots : r.numericVideos[i] # NoUrl})
  IN IF ~backupData.parses THEN unchanged
     ELSE IF ~backupData.data.defined \/ ~backupData.data.storyboard_sequence # <<"(undefined)">> THEN unchanged
     ELSE IF videoSource.defined /\ Size(videoSource.entries) > 0
     THEN IF r.threw
          THEN [unchanged EXCEPT !.generatedImages = images, !.created = r.created]
          ELSE [generatedImages |-> images,
                videoUrls |-> IF restoredCount > 0 THEN r.numericVideos ELSE videoUrls,
                created |-> r.created, toast |-> RestoredToast]
     ELSE [unchanged EXCEPT !.generatedImages = images, !.toast = RestoredNoVideosToast]

\* strings of the scenarios
HttpsUrl == <<"https://", "cdn.example/v.mp4">>
HttpUrl == <<"http://", "cdn.example/v.mp4">>
\* a blob: URL of a session that ended
StaleBlobUrl == <<"blob:", "ended-session">>
DataUrl(bytes) == <<"data:", "video/mp4", ";", "base64", ",">> \o Base64Encode(bytes)
PngDataUrl == <<"data:", "image/png", ";", "base64", ",", "i", "V", "B", "O">>


\* mappings over the first two shot indices
Entries(first, second) ==
  [k \in DocKeys |-> IF k = Key(0) THEN first ELSE IF k = Key(1) THEN second ELSE NoUrl]
ImageMappings == {[i \in Shots |-> NoUrl], [i \in Shots |-> IF i = 0 THEN PngDataUrl ELSE NoUrl]}

\* backup files of the restore scenarios: one that does not parse, two
\* without a project, and project B with an image mapping and the fields
\* videoBase64 and videoUrls (the current and the legacy name)
Documents ==
  {Unparsable,
   BackupData("1.1", NoData, Field(Entries(PngDataUrl, NoUrl)), Field(Entries(HttpsUrl, NoUrl)), NoField),
   BackupData("1.1", StoryboardData("project B", <<"(undefined)">>),
              Field(Entries(PngDataUrl, NoUrl)), Field(Entries(HttpsUrl, NoUrl)), NoField)}
  \cup {BackupData(IF videos[1].defined THEN "1.1" ELSE "1.0", ProjectB, images, videos[1], videos[2]) :
          images \in {NoField, Field(NoEntries), Field(Entries(PngDataUrl, NoUrl)),
                      Field(Entries(<<"blob:", "ended-session-image">>, PngDataUrl))},
          videos \in
            {<<NoField, NoField>>,
             <<Field(NoEntries), NoField>>,
             <<Field(Entries(HttpsUrl, DataUrl(<<0, 255>>))), NoField>>,
             <<Field(Entries(StaleBlobUrl, HttpUrl)), NoField>>,
             <<Field(Entries(<<"ftp://", "cdn.example/v.mp4">>,
                             <<"data:", "video/mp4", ";", "base64", ",", "A">>)), NoField>>,
             <<Field(Entries(HttpsUrl, <<"(number)", "42">>)), NoField>>,
             <<Field(Entries(<<"(number)", "42">>, HttpsUrl)), NoField>>,
             <<NoField, Field(Entries(HttpUrl, DataUrl(<<77>>)))>>,
             <<NoField, Field(Entries(StaleBlobUrl, HttpsUrl))>>,
             <<Field(NoEntries), Field(Entries(HttpUrl, DataUrl(<<77>>)))>>,
             <<Field(Entries(HttpsUrl, DataUrl(<<0, 255>>))), Field(Entries(HttpUrl, DataUrl(<<77>>)))>>}}

\* VideoCard.handleSave -> handleSaveVideoUrl(index, url) for a typed URL
SaveVideoUrl(i, url) ==
  /\ calls.saves < MaxSaves
  /\ calls' = [calls EXCEPT !.saves = @ + 1]
  /\ videoUrls' = [videoUrls EXCEPT ![i] = url]
  /\ UNCHANGED <<videoGenerationStatus, blobStore, dbInstance, objectUrls, urlsCreated,
                 locals, history, scenario, generatedImages, data, backupFile, lastBackup, lastRestore,
                 opLog, files, typedUrls, documents, imageBatch>>

\* VideoCard.handleFileUpload -> handleSaveVideoUrl(index, objectUrl)
FileUpload(i, file) ==
  /\ calls.saves < MaxSaves
  /\ calls' = [calls EXCEPT !.saves = @ + 1]
  /\ objectUrls' = objectUrls \cup {[id |-> urlsCreated + 1, blob |-> file]}
  /\ urlsCreated' = urlsCreated + 1
  /\ videoUrls' = [videoUrls EXCEPT ![i] = NewUrl]
  /\ UNCHANGED <<videoGenerationStatus, blobStore, dbInstance,
                 locals, history, scenario, generatedImages, data, backupFile, lastBackup, lastRestore,
                 opLog, files, typedUrls, documents, imageBatch>>

\* the reader events the entries of the video mapping can meet: a reader
\* runs only for a blob: URL that resolves, and only an empty blob gives
\* the bare data URL
EventsOf(mapping) ==
  {events \in [Shots -> {"loadend", "loadendBare", "error"}] :
     \A i \in Shots :
       /\ Resolve(mapping[i]) = NoBlob => events[i] = "loadend"
       /\ events[i] = "loadendBare" => Resolve(mapping[i]).bytes = <<>>}

\* handleBackupData
Backup(events) ==
  /\ calls.backups < MaxBackups
  /\ calls' = [calls EXCEPT !.backups = @ + 1]
  /\ backupFile' = HandleBackupData(events)
  /\ lastBackup' = [videoUrls |-> videoUrls, events |-> events]
  /\ UNCHANGED <<shared, locals, history, scenario, generatedImages, data, lastRestore, opLog, files, typedUrls, documents, imageBatch>>

\* handleRestoreData and the onload of its FileReader
Restore(backupData) ==
  LET r == HandleRestoreData(backupData)
  IN /\ calls.restores < MaxRestores
     /\ calls' = [calls EXCEPT !.restores = @ + 1]
     /\ generatedImages' = r.generatedImages
     /\ videoUrls' = r.videoUrls
     /\ objectUrls' = objectUrls \cup
          {[id |-> urlsCreated + k, blob |-> r.created[k]] : k \in 1..Len(r.created)}
     /\ urlsCreated' = urlsCreated + Len(r.created)
     /\ lastRestore' = [backupData |-> backupData, toast |-> r.toast]
     /\ UNCHANGED <<videoGenerationStatus, blobStore, dbInstance, locals, history, scenario,
                    data, backupFile, lastBackup, opLog, files, typedUrls, documents, imageBatch>>

\* ------------------------------------------------------------ Blob Store
MaxOps == 3

\* what the environment does to one operation: whether indexedDB.open
\* succeeds when initDB has to open the database, and the event of the
\* request on the object store
Environments == {[open |-> o, event |-> e] : o \in BOOLEAN, e \in {"success", "error"}}
\* initDB: the database is at hand
Opened(env) == dbInstance \/ env.open

\* the object store after the request, and how the promise settles
Outcome(store, settled, blob) == [store |-> store, settled |-> settled, blob |-> blob]
\* variant: store.add(entry), which fires error when the key exists
PutRequestAdd(store, id, blob, event) ==
  IF event = "success" /\ store[id] = NoBlob
  THEN Outcome([store EXCEPT ![id] = blob], "resolved", NoBlob)
  ELSE Outcome(store, "rejected", NoBlob)
\* store.put(entry): insert or overwrite under the key path 'id'
PutRequest(store, id, blob, event) ==
  IF event = "success"
  THEN Outcome([store EXCEPT ![id] = blob], "resolved", NoBlob)
  ELSE Outcome(store, "rejected", NoBlob)
\* store.get(id) and entry?.blob || null
GetRequest(store, id, event) ==
  IF event = "success"
  THEN Outcome(store, "resolved", store[id])
  ELSE Outcome(store, "rejected", NoBlob)
\* variant: the request for a key the store does not hold fires error
DeleteRequestStrict(store, id, event) ==
  IF event = "success" /\ store[id] # NoBlob
  THEN Outcome([store EXCEPT ![id] = NoBlob], "resolved", NoBlob)
  ELSE Outcome(store, "rejected", NoBlob)
\* store.delete(id): success also for a key the store does not hold
DeleteRequest(store, id, event) ==
  IF event = "success"
  THEN Outcome([store EXCEPT ![id] = NoBlob], "resolved", NoBlob)
  ELSE Outcome(store, "rejected", NoBlob)
\* store.clear()
ClearRequest(store, event) ==
  IF event = "success"
  THEN Outcome([id \in DOMAIN store |-> NoBlob], "resolved", NoBlob)
  ELSE Outcome(store, "rejected", NoBlob)

\* one operation of the module from its call to the settling of its
\* promise: initDB, then one transaction with one request.  Transactions on
\* the store run in the order they were created, so operations take effect
\* in the order of their calls.
Operation(op, id, blob, env, request) ==
  LET o == IF Opened(env) THEN request ELSE Outcome(blobStore, "rejected", NoBlob)
  IN /\ Len(opLog) < MaxOps
     /\ (dbInstance => env.open) /\ (~Opened(env) => env.event = "success")
     /\ dbInstance' = Opened(env)
     /\ blobStore' = o.store
     /\ opLog' = Append(opLog, [op |-> op, id |-> id, blob |-> IF op = "getBlob" THEN o.blob ELSE blob,
                                settled |-> o.settled, env |-> env])
     /\ UNCHANGED <<videoGenerationStatus, videoUrls, objectUrls, urlsCreated, locals, history,
                    scenario, generatedImages, data, backupFile, lastBackup, lastRestore, calls, files, typedUrls, documents, imageBatch>>

SetBlob(id, blob, env) == Operation("setBlob", id, blob, env, PutRequest(blobStore, id, blob, env.event))
GetBlob(id, env) == Operation("getBlob", id, NoBlob, env, GetRequest(blobStore, id, env.event))
DeleteBlob(id, env) == Operation("deleteBlob", id, NoBlob, env, DeleteRequest(blobStore, id, env.event))
ClearAllBlobs(env) == Operation("clearAllBlobs", <<"*">>, NoBlob, env, ClearRequest(blobStore, env.event))

\* ---------------------------------------------- image generation in batches
\* storyboards of the batch scenarios have this many shots
NumScenes == 5
Scenes == 0..(NumScenes - 1)
\* const batchSize = 3
batchSize == 3

\* no run of handleGenerateAllImages yet
NoBatch ==
  [pc |-> "idle", indices |-> <<>>, i |-> 0, prompts |-> {},
   requests |-> [idx \in Scenes |-> "none"]]

\* indices.slice(i, i + batchSize)
Slice(indices, i) == {indices[k] : k \in (i + 1)..Min(i + batchSize, Len(indices))}

\* variant: the loop goes on when one request of the batch has settled
BatchSettledAny(b) == \E idx \in Slice(b.indices, b.i) : b.requests[idx] = "settled"
\* Promise.all(batch.map(idx => generateImageForShot(idx))) resolves:
\* generateImageForShot catches what it throws, so every promise of the
\* batch fulfils, when its request has settled or at once without a prompt
BatchSettled(b) == \A idx \in Slice(b.indices, b.i) : b.requests[idx] # "inflight"

\* the for loop of handleGenerateAllImages from i on, up to its next await
\* that has a request to wait for: generateImageForShot issues a request
\* for each shot of the batch that has a prompt
RECURSIVE Batches(_, _)
Batches(b, i) ==
  IF i >= Len(b.indices) THEN [b EXCEPT !.pc = "done", !.i = i]
  ELSE LET started == Slice(b.indices, i) \cap b.prompts
       IN IF started = {} THEN Batches(b, i + batchSize)
          ELSE [b EXCEPT !.pc = "await", !.i = i,
                         !.requests = [idx \in Scenes |-> IF idx \in started THEN "inflight" ELSE @[idx]]]

\* handleGenerateAllImages up to its first await; the button is disabled
\* while isGlobalGenerating
GenerateAllImages(key, prompts) ==
  /\ imageBatch.pc # "await"
  /\ imageBatch' =
       IF ~key THEN [NoBatch EXCEPT !.pc = "returned"]
       ELSE Batches([NoBatch EXCEPT
                       !.prompts = prompts,
                       !.indices = SelectSeq([k \in 1..NumScenes |-> k - 1],
                                             LAMBDA idx : generatedImages[idx] = NoUrl)], 0)
  /\ UNCHANGED <<shared, locals, history, scenario, generatedImages, data, backupFile, lastBackup,
                 lastRestore, calls, opLog, files, typedUrls, documents>>

\* ai.models.generateContent of generateImageForShot(idx) settles: with an
\* image, without one, or rejected; then the rest of handleGenerateAllImages
\* when the batch has settled
ImageResponse(idx, outcome) ==
  /\ imageBatch.requests[idx] = "inflight"
  /\ generatedImages' = IF outcome = "image" THEN [generatedImages EXCEPT ![idx] = PngDataUrl]
                        ELSE generatedImages
  /\ imageBatch' =
       LET b == [imageBatch EXCEPT !.requests[idx] = "settled"]
       IN IF BatchSettled(b) THEN Batches(b, b.i + batchSize) ELSE b
  /\ UNCHANGED <<shared, locals, history, scenario, data, backupFile, lastBackup,
                 lastRestore, calls, opLog, files, typedUrls, documents>>

Start ==
  /\ imageBatch = NoBatch
  /\ videoGenerationStatus = [i \in Shots |-> NoStatus]
  /\ videoUrls = [i \in Shots |-> NoUrl]
  /\ blobStore = [id \in StoreIds |-> NoBlob]
  /\ dbInstance = FALSE
  /\ objectUrls = {}
  /\ urlsCreated = 0
  /\ pc = [j \in Jobs |-> "idle"]
  /\ index = [j \in Jobs |-> 0]
  /\ prompt = [j \in Jobs |-> FALSE]
  /\ startImage = [j \in Jobs |-> NoImage]
  /\ closureVideoUrls = [j \in Jobs |-> [i \in Shots |-> NoUrl]]
  /\ operationName = [j \in Jobs |-> NoOperation]
  /\ attempts = [j \in Jobs |-> 0]
  /\ maxAttempts = [j \in Jobs |-> 0]
  /\ videoBlob = [j \in Jobs |-> NoBlob]
  /\ videoUri = [j \in Jobs |-> NoUri]
  /\ thumbnailUrl = [j \in Jobs |-> 0]
  /\ statusLog = [j \in Jobs |-> <<>>]
  /\ requests = [j \in Jobs |-> NoRequests]
  /\ priorNotDone = [j \in Jobs |-> TRUE]
  /\ lastWrite = [j \in Jobs |-> NoStatus]
  /\ lastPoll = [j \in Jobs |-> NoPoll]
  /\ thrown = [j \in Jobs |-> NoError]
  /\ cancelled = [i \in Shots |-> FALSE]
  /\ cancelledAt = [j \in Jobs |-> "never"]
  /\ runs = 0
  /\ backupFile = Unparsable
  /\ lastBackup = [videoUrls |-> [i \in Shots |-> NoUrl], events |-> [i \in Shots |-> "loadend"]]
  /\ lastRestore = [backupData |-> Unparsable, toast |-> "(none)"]
  /\ calls = [saves |-> 0, backups |-> 0, restores |-> 0]
  /\ opLog = <<>>

\* the component is mounted on project A without images; the user saves no
\* URL, uploads no file and restores no foreign file
NoCodecInput ==
  /\ generatedImages = [i \in Shots |-> NoUrl]
  /\ data = ProjectA
  /\ files = {}
  /\ typedUrls = {}
  /\ documents = "own"

\* runs one at a time, any attempt ceiling up to the bound
Init ==
  /\ Start
  /\ jobLimit = 1
  /\ ceilings = 1..MaxAttemptsBound
  /\ pollAnswers = PollOutcomes
  /\ NoCodecInput


Next ==
  \/ \E j \in Jobs, i \in Shots, key \in BOOLEAN, p \in BOOLEAN, img \in StartImages : Invoke(j, i, key, p, img)
  \/ \E i \in Shots : Cancel(i)
  \/ \E j \in Jobs : SubmitResponse(j)
  \/ \E j \in Jobs : PollResponse(j)
  \/ \E j \in Jobs : TimerFires(j)
  \/ \E j \in Jobs : DownloadResponse(j)
  \/ \E j \in Jobs : SetBlobResponse(j)
  \/ \E j \in Jobs : LoadedMetadata(j)
  \/ \E j \in Jobs : Seeked(j)
  \/ \E j \in Jobs : VideoError(j)
  \/ \E j \in Jobs : ToBlobCallback(j)
  \/ \E j \in Jobs : SetThumbnailResponse(j)

Spec == Init /\ [][Next]_vars

\* the same, where every response, timer and decoder event a run waits for
\* arrives: fetch and IndexedDB requests settle, timers fire, the video
\* element fires loadedmetadata or error and seeked or error, canvas.toBlob
\* calls back
SpecFair ==
  /\ Init
  /\ [][Next]_vars
  /\ \A j \in Jobs :
       WF_vars(\/ SubmitResponse(j) \/ PollResponse(j) \/ TimerFires(j) \/ DownloadResponse(j)
               \/ SetBlobResponse(j) \/ LoadedMetadata(j) \/ Seeked(j) \/ VideoError(j)
               \/ ToBlobCallback(j) \/ SetThumbnailResponse(j))

\* runs one at a time with the default ceiling, which is what
\* generateVideoComplete passes (it gives pollVideoGeneration no maxAttempts),
\* against a remote service whose poll requests and operations never fail
InitDefault ==
  /\ Start
  /\ jobLimit = 1
  /\ ceilings = {DefaultMaxAttempts}
  /\ pollAnswers = {o \in PollOutcomes : o.kind = "ok" /\ ~o.result.hasError}
  /\ NoCodecInput

SpecDefault == InitDefault /\ [][Next]_vars

\* no video is generated
NoGeneration ==
  /\ jobLimit = 0
  /\ ceilings = {}
  /\ pollAnswers = {}

\* backup and restore of the working set: the user saves URLs and uploads
\* files, takes a backup and restores the file it produced
InitCodec ==
  /\ Start
  /\ NoGeneration
  /\ generatedImages \in ImageMappings
  /\ data = ProjectA
  /\ files = {Blob(Mp4Type, bytes) : bytes \in UNION {[1..n -> {0, 255}] : n \in 0..MaxBlobLen}}
  /\ typedUrls = {HttpsUrl, HttpUrl, StaleBlobUrl, DataUrl(<<255>>)}
  /\ documents = "own"

NextCodec ==
  \/ \E i \in Shots : \E url \in typedUrls : SaveVideoUrl(i, url)
  \/ \E i \in Shots : \E file \in files : FileUpload(i, file)
  \/ \E events \in EventsOf(videoUrls) : Backup(events)
  \/ \E backupData \in (IF documents = "any" THEN Documents ELSE {})
                         \cup (IF calls.backups > 0 THEN {backupFile} ELSE {}) :
       Restore(backupData)

SpecCodec == InitCodec /\ [][NextCodec]_vars

\* restore of any backup file into a working set that holds at most one
\* uploaded file and one typed URL
InitRestore ==
  /\ Start
  /\ NoGeneration
  /\ generatedImages \in ImageMappings
  /\ data = ProjectA
  /\ files = {Blob(Mp4Type, <<255>>)}
  /\ typedUrls = {HttpsUrl}
  /\ documents = "any"

SpecRestore == InitRestore /\ [][NextCodec]_vars

\* any sequence of Blob Store operations on a database that starts empty
InitStore ==
  /\ Start
  /\ NoGeneration
  /\ NoCodecInput

NextStore ==
  \/ \E i \in Shots, blob \in VideoBlobs, env \in Environments : SetBlob(VideoId(i), blob, env)
  \/ \E i \in Shots, env \in Environments : GetBlob(VideoId(i), env)
  \/ \E i \in Shots, env \in Environments : DeleteBlob(VideoId(i), env)
  \/ \E env \in Environments : ClearAllBlobs(env)

SpecStore == InitStore /\ [][NextStore]_vars

\* two runs that may overlap, on the same shot or on two, against a remote
\* service whose operation completes without error at the first or second
\* poll
InitConcurrent ==
  /\ Start
  /\ jobLimit = 2
  /\ ceilings = {2}
  /\ pollAnswers = {o \in PollOutcomes : o.kind = "ok" /\ ~o.result.hasError
                                          /\ (o.result.done => ExtractVideoUri(o.result.payload) # NoUri)}
  /\ NoCodecInput

\* the runs are started with an API key and a prompt, and are not cancelled
NextConcurrent ==
  \/ \E j \in Jobs, i \in Shots : Invoke(j, i, TRUE, TRUE, NoImage)
  \/ \E j \in Jobs : SubmitResponse(j)
  \/ \E j \in Jobs : PollResponse(j)
  \/ \E j \in Jobs : TimerFires(j)
  \/ \E j \in Jobs : DownloadResponse(j)
  \/ \E j \in Jobs : SetBlobResponse(j)
  \/ \E j \in Jobs : LoadedMetadata(j)
  \/ \E j \in Jobs : Seeked(j)
  \/ \E j \in Jobs : VideoError(j)
  \/ \E j \in Jobs : ToBlobCallback(j)
  \/ \E j \in Jobs : SetThumbnailResponse(j)

SpecConcurrent == InitConcurrent /\ [][NextConcurrent]_vars

\* one run against a remote service whose operation completes without
\* error at the first or second poll, each of the four shapes of the payload
\* absent or holding a locator of its own, the first two also empty
InitPayload ==
  /\ Start
  /\ jobLimit = 1
  /\ ceilings = {2}
  /\ pollAnswers =
       {[kind |-> "ok", message |-> <<>>, result |-> NotDoneResponse]}
       \cup {[kind |-> "ok", message |-> <<>>,
              result |-> [done |-> TRUE, hasError |-> FALSE, errorMessage |-> <<>>,
                          payload |-> Payload(samples, generated, videos, top)]] :
               samples \in {NoUri, "", "https://x/samples.mp4"},
               generated \in {NoUri, "", "https://x/generated.mp4"},
               videos \in {NoUri, "https://x/videos.mp4"},
               top \in {NoUri, "https://x/top.mp4"}}
  /\ NoCodecInput

SpecPayload == InitPayload /\ [][Next]_vars

\* handleGenerateAllImages on a storyboard of NumScenes shots, some with an
\* image already, some without a prompt
InitBatch ==
  /\ Start
  /\ NoGeneration
  /\ generatedImages \in [Scenes -> {NoUrl, PngDataUrl}]
  /\ data = ProjectA
  /\ files = {}
  /\ typedUrls = {}
  /\ documents = "own"

NextBatch ==
  \/ \E key \in BOOLEAN, prompts \in {Scenes, Scenes \ {1}} : GenerateAllImages(key, prompts)
  \/ \E idx \in Scenes, outcome \in {"image", "noImage", "rejected"} : ImageResponse(idx, outcome)

SpecBatch == InitBatch /\ [][NextBatch]_vars

\* ------------------------------------------------------------------ claims
Idle == Status("idle", 0, <<>>, NoOperation)

\* the run of job j ends in this step (normally or through its catch block)
RunEnds(j) == pc[j] # "done" /\ pc'[j] = "done"

\* the status names the run passed to onProgress, in order
Callbacks(j) ==
  LET log == SelectSeq(statusLog[j], LAMBDA w : w.via = "onProgress")
  IN [k \in 1..Len(log) |-> log[k].status]

\* C1: a run started with an API key and a prompt or a start image ends
\* with the shot's status 'completed', or 'error' with a non-empty message
\* (stated for the step in which the run ends).
C1_EndsCompletedOrErrorWithMessage ==
  [][\A j \in Jobs : RunEnds(j) =>
        LET st == videoGenerationStatus'[index[j]]
        IN st.status = "completed" \/ (st.status = "error" /\ st.message # <<>>)]_vars

\* C2: within one run, of two consecutive 'polling' statuses the later has
\* a progress greater than or equal to the earlier one's.
C2_PollingProgressNonDecreasing ==
  [][\A j \in Jobs :
        (pc[j] \in {"submit", "poll", "wait"} /\ lastWrite[j].status = "polling" /\ lastWrite'[j].status = "polling")
        => lastWrite'[j].progress >= lastWrite[j].progress]_vars

\* C3: submit succeeds, the first poll answers done=false, the second
\* done=true with a locator and no error, the download succeeds: the
\* statuses passed to onProgress are exactly generating, polling, polling,
\* downloading, completed.
C3Scenario(j) ==
  /\ requests[j].poll = 2
  /\ priorNotDone[j]
  /\ lastPoll[j].kind = "ok" /\ lastPoll[j].result.done /\ ~lastPoll[j].result.hasError
  /\ videoBlob[j] # NoBlob
C3_ScenarioStatusSequence ==
  \A j \in Jobs : C3Scenario(j) =>
     Callbacks(j) = <<"generating", "polling", "polling", "downloading", "completed">>

\* C4: the statuses a run writes follow the state machine: (idle to)
\* generating, generating to polling, polling to polling, polling to
\* downloading, downloading to completed, generating/polling/downloading to
\* error.  A write that repeats the status is not a change.
Transitions ==
  {<<"generating", "polling">>, <<"polling", "polling">>, <<"polling", "downloading">>,
   <<"downloading", "completed">>, <<"generating", "error">>, <<"polling", "error">>,
   <<"downloading", "error">>}
C4_StatusFollowsStateMachine ==
  \A j \in Jobs :
     /\ statusLog[j] # <<>> => statusLog[j][1].status = "generating"
     /\ \A k \in 1..(Len(statusLog[j]) - 1) :
          \/ statusLog[j][k].status = statusLog[j][k + 1].status
          \/ <<statusLog[j][k].status, statusLog[j][k + 1].status>> \in Transitions

\* C5: after a cancel in flight the shot's status is idle until a new run
\* is invoked for the shot, and the cancelled run issues no download, no
\* store write and no mapping update from then on.
C5_CancelledStaysIdle ==
  /\ \A i \in Shots : cancelled[i] => videoGenerationStatus[i] = Idle
  /\ \A j \in Jobs :
       /\ cancelledAt[j] \in {"submit", "poll", "wait"} => requests[j].download = 0
       /\ cancelledAt[j] \in {"submit", "poll", "wait", "download"} => requests[j].setBlob = 0
       /\ cancelledAt[j] # "never" => requests[j].videosUpdate = 0

\* C6: a poll request that fails (fetch rejects, or a non-ok response) does
\* not end the run: the loop waits and polls again, and only the attempt
\* ceiling can end it afterwards.
PollFailed(j) == lastPoll[j].kind \in {"rejected", "http"}
C6_PollFailureIsRetried ==
  \A j \in Jobs : PollFailed(j) =>
     \/ pc[j] \in {"wait", "poll"}
     \/ pc[j] = "done" /\ thrown[j] = Err(TimeoutMsg) /\ requests[j].poll = maxAttempts[j]

\* C7: a poll answered done=true with an error ends the run at that poll,
\* whatever the message: 'error' with progress 0 and the remote message is
\* emitted, the error reaches the caller, no further poll, no download.
PollSaidError(j) == lastPoll[j].kind = "ok" /\ lastPoll[j].result.done /\ lastPoll[j].result.hasError
C7_OperationErrorEndsRun ==
  \A j \in Jobs : PollSaidError(j) =>
     /\ pc[j] = "done"
     /\ thrown[j] = Err(lastPoll[j].result.errorMessage)
     /\ lastWrite[j] = Status("error", 0, lastPoll[j].result.errorMessage, NoOperation)
     /\ Callbacks(j)[Len(Callbacks(j))] = "error"
     /\ requests[j].poll = attempts[j]
     /\ requests[j].download = 0

\* C8: when every poll answers done=false the run makes exactly maxAttempts
\* polls and no download, and ends with the shot's status 'error' carrying
\* the timeout message, the timeout error having reached the caller.
C8_TimeoutAfterMaxAttempts ==
  [][\A j \in Jobs :
        (RunEnds(j) /\ requests'[j].poll > 0 /\ AllNotDone(j)')
        => /\ requests'[j].poll = maxAttempts'[j]
           /\ requests'[j].download = 0
           /\ thrown'[j] = Err(TimeoutMsg)
           /\ videoGenerationStatus'[index[j]] = Status("error", 0, TimeoutMsg, NoOperation)]_vars
C8_Witness ==
  \E j \in Jobs :
     /\ pc[j] = "done" /\ AllNotDone(j) /\ thrown[j] = Err(TimeoutMsg)
     /\ maxAttempts[j] = MaxAttemptsBound /\ requests[j].poll = MaxAttemptsBound

\* C9: invoked for a shot with neither a prompt nor a start image,
\* generateVideoForShot returns having issued no submit, poll or download
\* request, no store write and no mapping update, and written no status.
C9_NoInputsNoRequests ==
  \A j \in Jobs :
     (pc[j] \in {"returned", "submit"} /\ ~prompt[j] /\ startImage[j] = NoImage)
     => pc[j] = "returned" /\ requests[j] = NoRequests /\ statusLog[j] = <<>>
C9_Witness ==
  \E j \in Jobs : pc[j] = "returned" /\ ~prompt[j] /\ startImage[j] = NoImage /\ requests[j] = NoRequests

\* C10: whenever a shot's status is 'completed' by a run, the store holds
\* under video_<index> the bytes the run downloaded and the mapping holds
\* for the index a reference that resolves to the same bytes.
C10_CompletedMeansStored ==
  \A j \in Jobs :
     (lastWrite[j].status = "completed" /\ videoGenerationStatus[index[j]] = lastWrite[j])
     => /\ videoBlob[j] # NoBlob
        /\ blobStore[VideoId(index[j])] = videoBlob[j]
        /\ Resolve(videoUrls[index[j]]) = videoBlob[j]

\* this step is a restore of the document the latest backup produced
RestoresBackup ==
  /\ calls.backups > 0
  /\ calls'.restores = calls.restores + 1
  /\ lastRestore'.backupData = backupFile

IsHttp(url) == StartsWith(url, "http://") \/ StartsWith(url, "https://")

\* C11: for every binary b behind a blob: reference of the video mapping,
\* a backup followed by a restore of the produced document leaves for the
\* same shot index a reference whose bytes are those of b (stated for the
\* restore step; an entry whose FileReader reported an error is left aside).
C11_BlobRoundTrip ==
  [][RestoresBackup =>
       \A i \in Shots :
         LET b == Resolve(lastBackup.videoUrls[i])
         IN (b # NoBlob /\ lastBackup.events[i] # "error")
              => /\ Resolve(videoUrls[i])' # NoBlob
                 /\ Resolve(videoUrls[i])'.bytes = b.bytes]_vars

\* C12: for every video mapping whose entries are all http:// or https://
\* URLs, a backup followed by a restore of the produced document leaves a
\* video mapping with the same shot indices and the same URL strings.
C12_HttpRoundTrip ==
  [][(RestoresBackup /\ \A i \in Shots : lastBackup.videoUrls[i] = NoUrl \/ IsHttp(lastBackup.videoUrls[i]))
       => videoUrls' = lastBackup.videoUrls]_vars

\* C13: the document of a backup holds no blob: reference in its video
\* mapping: an entry that was a blob: reference is a data URI in the
\* document or is left out of it.
C13_NoBlobUrlInDocument ==
  calls.backups > 0 =>
    /\ ~backupFile.videoUrls.defined
    /\ \A i \in Shots :
         LET entry == backupFile.videoBase64.entries[Key(i)]
         IN /\ ~StartsWith(entry, "blob:")
            /\ StartsWith(lastBackup.videoUrls[i], "blob:")
                 => entry = NoUrl \/ StartsWith(entry, "data:")
\* a backup wrote one blob: reference as a data URI and left another out
C13_Witness ==
  /\ calls.backups > 0
  /\ \E i \in Shots :
       /\ StartsWith(lastBackup.videoUrls[i], "blob:")
       /\ StartsWith(backupFile.videoBase64.entries[Key(i)], "data:")
       /\ Len(backupFile.videoBase64.entries[Key(i)]) > 5
  /\ \E i \in Shots :
       /\ StartsWith(lastBackup.videoUrls[i], "blob:")
       /\ backupFile.videoBase64.entries[Key(i)] = NoUrl

\* this step is a restore; Restored is the file it read
RestoreStep == calls'.restores = calls.restores + 1
Restored == lastRestore'.backupData
ValidShape(backupData) ==
  backupData.parses /\ backupData.data.defined /\ backupData.data.storyboard_sequence # <<"(undefined)">>
IsDataUri(url) == StartsWith(url, "data:")
Portable(url) == IsDataUri(url) \/ IsHttp(url)

\* C14: restoring a document with a storyboard sequence and a non-empty
\* generatedImages mapping but no video mapping (no videoBase64, nor the
\* legacy field) succeeds and leaves an empty video mapping and the
\* document's image mapping, whatever the video mapping was before.
C14_NoVideosRestoresEmptyMapping ==
  [][(/\ RestoreStep
      /\ ValidShape(Restored)
      /\ Restored.generatedImages.defined
      /\ Size(Restored.generatedImages.entries) > 0
      /\ ~Restored.videoBase64.defined
      /\ ~Restored.videoUrls.defined)
       => /\ lastRestore'.toast # RestoreFailedToast
          /\ videoUrls' = [i \in Shots |-> NoUrl]
          /\ generatedImages' = [i \in Shots |-> Restored.generatedImages.entries[Key(i)]]]_vars

\* C15: a restore that fails changes neither the image mapping nor the
\* video mapping.
C15_FailedRestoreChangesNothing ==
  [][(RestoreStep /\ lastRestore'.toast = RestoreFailedToast)
       => generatedImages' = generatedImages /\ videoUrls' = videoUrls]_vars

\* C16: on restore of a document of valid shape, an entry of the image or
\* video mapping that is neither a data URI nor an http(s) URL is left out
\* of the restored mapping, and the http(s) entries of the same mapping are
\* restored all the same.
C16_UnrestorableEntriesOmitted ==
  [][(RestoreStep /\ ValidShape(Restored)) =>
       \A i \in Shots :
         LET image == Restored.generatedImages.entries[Key(i)]
             video == VideoSource(Restored).entries[Key(i)]
         IN /\ (image # NoUrl /\ ~Portable(image)) => generatedImages'[i] = NoUrl
            /\ (video # NoUrl /\ ~Portable(video)) => videoUrls'[i] = NoUrl
            /\ IsHttp(image) => generatedImages'[i] = image
            /\ IsHttp(video) => videoUrls'[i] = video]_vars

\* the file with its legacy video mapping moved under the current name
UnderCurrentName(backupData) ==
  [backupData EXCEPT !.videoBase64 = backupData.videoUrls, !.videoUrls = NoField]

\* C17: a document that carries its video mapping (data URIs and http(s)
\* URLs) under the legacy field videoUrls and has no videoBase64 field is
\* restored as the same mapping given under videoBase64 would be: same
\* video mapping, same blobs behind the new references.
C17_LegacyFieldRestoredAlike ==
  [][(/\ RestoreStep
      /\ Restored.parses
      /\ ~Restored.videoBase64.defined
      /\ Restored.videoUrls.defined
      /\ \A k \in DocKeys : LET url == Restored.videoUrls.entries[k]
                             IN url = NoUrl \/ Portable(url))
       => LET r == HandleRestoreData(UnderCurrentName(Restored))
          IN /\ videoUrls' = r.videoUrls
             /\ lastRestore'.toast = r.toast
             /\ objectUrls' = objectUrls \cup
                  {[id |-> urlsCreated + k, blob |-> r.created[k]] : k \in 1..Len(r.created)}]_vars
\* a legacy file was restored: its http URL as it is, its data URI as a
\* new blob: reference to the decoded bytes
C17_Witness ==
  /\ calls.restores > 0
  /\ ~lastRestore.backupData.videoBase64.defined
  /\ lastRestore.backupData.videoUrls.entries = Entries(HttpUrl, DataUrl(<<77>>))
  /\ videoUrls[0] = HttpUrl
  /\ Resolve(videoUrls[1]).bytes = <<77>>

\* C18: after a successful restore the project (storyboard sequence,
\* project meta, reference image) is the data field of the restored file.
C18_ProjectRestored ==
  [][(RestoreStep /\ lastRestore'.toast # RestoreFailedToast) => data' = Restored.data]_vars

\* operation p of the log did what it was called for
Done(log, p, op) == log[p].op = op /\ log[p].settled = "resolved"
\* the environment let operation p through
Unhindered(log, p) == log[p].env.open /\ log[p].env.event = "success"
Latest(log) == log[Len(log)]
StoreStep == Len(opLog') = Len(opLog) + 1

\* C19: a getBlob(id) after a deleteBlob(id) with no setBlob(id) between
\* them returns null, and a deleteBlob of an id the store never held
\* completes without an error (when the database is at hand and the
\* request is served) and leaves the store as it was.
C19_DeleteThenGetIsNull ==
  [][StoreStep =>
       /\ \A p \in 1..Len(opLog') :
            (/\ Done(opLog', p, "getBlob")
             /\ \E q \in 1..(p - 1) :
                  /\ Done(opLog', q, "deleteBlob")
                  /\ opLog'[q].id = opLog'[p].id
                  /\ \A k \in (q + 1)..(p - 1) :
                       ~(opLog'[k].op = "setBlob" /\ opLog'[k].id = opLog'[p].id))
              => opLog'[p].blob = NoBlob
       /\ (/\ Latest(opLog').op = "deleteBlob"
           /\ Unhindered(opLog', Len(opLog'))
           /\ \A q \in 1..Len(opLog) :
                ~(opLog[q].op = "setBlob" /\ opLog[q].id = Latest(opLog').id))
            => Latest(opLog').settled = "resolved" /\ blobStore' = blobStore]_vars
\* an id was stored, deleted and read back
C19_Witness ==
  /\ Len(opLog) = 3
  /\ Done(opLog, 1, "setBlob")
  /\ Done(opLog, 2, "deleteBlob")
  /\ Done(opLog, 3, "getBlob")
  /\ opLog[1].id = opLog[2].id
  /\ opLog[2].id = opLog[3].id
  /\ opLog[3].blob = NoBlob

\* the blob getBlob(id) is to return as operation p: that of the latest
\* setBlob(id, b) done before p with no deleteBlob(id) or clearAllBlobs
\* done after it, null when there is none
Expected(log, p, id) ==
  LET writes == {q \in 1..(p - 1) :
                   \/ Done(log, q, "clearAllBlobs")
                   \/ (log[q].id = id /\ (Done(log, q, "setBlob") \/ Done(log, q, "deleteBlob")))}
      last == CHOOSE q \in writes : \A w \in writes : w <= q
  IN IF writes = {} THEN NoBlob
     ELSE IF log[last].op = "setBlob" THEN log[last].blob
     ELSE NoBlob

\* C20: after any sequence of store operations getBlob(id) returns the
\* binary of the most recent setBlob(id, b) not followed by deleteBlob(id)
\* or clearAllBlobs, null when there is none; setBlob(id, b) completes
\* whether or not the id is held (when the database is at hand and the
\* request is served) and changes the entry of no other id.
C20_SetBlobIsUpsert ==
  [][StoreStep =>
       /\ \A p \in 1..Len(opLog') :
            Done(opLog', p, "getBlob") => opLog'[p].blob = Expected(opLog', p, opLog'[p].id)
       /\ (Latest(opLog').op = "setBlob" /\ Unhindered(opLog', Len(opLog')))
            => Latest(opLog').settled = "resolved"
       /\ Latest(opLog').op = "setBlob"
            => \A id \in StoreIds : id # Latest(opLog').id => blobStore'[id] = blobStore[id]]_vars
\* an id was stored twice with different blobs and read back
C20_Witness ==
  /\ Len(opLog) = 3
  /\ Done(opLog, 1, "setBlob")
  /\ Done(opLog, 2, "setBlob")
  /\ Done(opLog, 3, "getBlob")
  /\ opLog[1].id = opLog[2].id
  /\ opLog[2].id = opLog[3].id
  /\ opLog[1].blob # opLog[2].blob
  /\ opLog[3].blob = opLog[2].blob

\* the poll of job j answered in this step: done, no error
CompletedOperation(j) ==
  /\ pc[j] = "poll"
  /\ lastPoll'[j].kind = "ok" /\ lastPoll'[j].result.done /\ ~lastPoll'[j].result.hasError
\* the locators of the payload of job j's latest poll, in the order of priority
Locators(j) ==
  LET p == lastPoll[j].result.payload
  IN <<p.generatedSamples, p.generatedVideos, p.videos, p.topGeneratedVideos>>
Empty(uri) == uri \in {NoUri, ""}

\* C21: the locator passed to the download of a completed operation is the
\* one of the first shape, in the order generateVideoResponse
\* .generatedSamples, response.generatedVideos, response.videos, top-level
\* generatedVideos, that holds a non-empty locator; the download is
\* requested whenever one of them does.
C21_FirstNonEmptyLocatorIsUsed ==
  [][\A j \in Jobs :
        (CompletedOperation(j) /\ \E k \in 1..4 : ~Empty(Locators(j)'[k]))
        => /\ pc'[j] = "download"
           /\ requests'[j].download = 1
           /\ \E k \in 1..4 :
                /\ ~Empty(Locators(j)'[k])
                /\ \A m \in 1..(k - 1) : Empty(Locators(j)'[m])
                /\ videoUri'[j] = Locators(j)'[k]]_vars
\* the third shape is used: the first is empty, the second absent, the
\* fourth holds another locator
C21_Witness ==
  \E j \in Jobs :
     /\ pc[j] = "download"
     /\ Locators(j) = <<"", NoUri, "https://x/videos.mp4", "https://x/top.mp4">>
     /\ videoUri[j] = "https://x/videos.mp4"

\* C22: a completed operation without error whose payload holds no
\* locator in any of the four shapes ends the run at that poll with the
\* missing-locator error: no download request, no Blob Store write, and the
\* shot's status is 'error'.
C22_MissingLocatorEndsRun ==
  [][\A j \in Jobs :
        (CompletedOperation(j) /\ \A k \in 1..4 : Empty(Locators(j)'[k]))
        => /\ pc'[j] = "done"
           /\ thrown'[j] = Err(MissingUriMsg)
           /\ requests'[j].download = 0
           /\ requests'[j].setBlob = 0
           /\ blobStore' = blobStore
           /\ videoGenerationStatus'[index[j]] = Status("error", 0, MissingUriMsg, NoOperation)]_vars
\* a run ended on a payload whose shapes are empty strings or absent
C22_Witness ==
  \E j \in Jobs :
     /\ pc[j] = "done"
     /\ Locators(j) = <<"", "", NoUri, NoUri>>
     /\ lastPoll[j].result.done /\ ~lastPoll[j].result.hasError
     /\ thrown[j] = Err(MissingUriMsg)
     /\ videoGenerationStatus[index[j]].status = "error"

\* C30: a run issues at most maxAttempts poll requests, a poll that failed
\* and is retried counting like any other; when the ceiling is reached the
\* loop polls no more and the run ends with the timeout error.
C30_PollsBoundedByMaxAttempts ==
  [][\A j \in Jobs :
        /\ requests'[j].poll = attempts'[j]
        /\ requests'[j].poll <= maxAttempts'[j]
        /\ (pc[j] = "wait" /\ pc'[j] # "wait" /\ requests[j].poll >= maxAttempts[j])
             => pc'[j] = "done" /\ thrown'[j] = Err(TimeoutMsg) /\ requests'[j].poll = requests[j].poll]_vars
\* a run whose latest poll failed ended at a ceiling above one
C30_Witness ==
  \E j \in Jobs :
     /\ pc[j] = "done"
     /\ thrown[j] = Err(TimeoutMsg)
     /\ PollFailed(j)
     /\ maxAttempts[j] > 1
     /\ requests[j].poll = maxAttempts[j]

\* C23: once the video is downloaded and stored the run ends with status
\* 'completed' and the video mapping updated for the shot, whether the
\* thumbnail is made and stored or not.
C23_ThumbnailFailureDoesNotFailRun ==
  \A j \in Jobs :
     (pc[j] = "thumbnail")
     ~> (/\ pc[j] = "done"
         /\ thrown[j] = NoError
         /\ lastWrite[j].status = "completed"
         /\ Resolve(videoUrls[index[j]]) = videoBlob[j])

\* an object URL with this id is live
Live(id) == \E u \in objectUrls : u.id = id

\* C24: whatever the decoder events, generateThumbnail settles or waits for
\* an event that settles it, and the objectUrl it created is live only
\* while it waits.
C24_ThumbnailSettlesAndReleases ==
  \A j \in Jobs :
     thumbnailUrl[j] # 0 =>
       /\ pc[j] # "seeked"
       /\ Live(thumbnailUrl[j]) => pc[j] \in {"thumbnail", "seek", "toBlob"}

\* the requests of the run of handleGenerateAllImages that are in flight
InFlightImages == {idx \in Scenes : imageBatch.requests[idx] = "inflight"}
\* the batch of the position k of indices
BatchOf(k) == (k - 1) \div 3

\* C27: at most 3 image requests started by handleGenerateAllImages are in
\* flight at any time, and no request of a batch is started before every
\* request of the batches before it has settled.
C27_BatchesOfThree ==
  /\ Cardinality(InFlightImages) <= 3
  /\ \A a, b \in 1..Len(imageBatch.indices) :
       (BatchOf(a) < BatchOf(b) /\ imageBatch.requests[imageBatch.indices[b]] # "none")
       => imageBatch.requests[imageBatch.indices[a]] # "inflight"
\* the second batch is in flight after a first batch of three whose requests
\* did not all succeed
C27_Witness ==
  /\ imageBatch.pc = "await"
  /\ imageBatch.i = 3
  /\ Cardinality(InFlightImages) = 2
  /\ Len(imageBatch.indices) = 5
  /\ \E idx \in Scenes : imageBatch.requests[idx] = "settled" /\ generatedImages[idx] = NoUrl

\* job j took this step: it wrote a status or counted an attempt
Stepped(j) == statusLog'[j] # statusLog[j] \/ attempts'[j] # attempts[j]
\* jobs i and j run at this step, for different shots
ConcurrentJobs(i, j) ==
  /\ i # j
  /\ index'[i] # index'[j]
  /\ pc'[i] \notin {"idle", "returned"}
  /\ pc[j] \notin {"idle", "returned"}

\* C25: a status write or an attempt of a job changes neither the status
\* entry nor the attempt count nor the attempt ceiling of a concurrent job
\* for another shot.
C25_JobsAreIsolated ==
  [][\A i, j \in Jobs :
        (ConcurrentJobs(i, j) /\ Stepped(i))
        => /\ attempts'[j] = attempts[j]
           /\ maxAttempts'[j] = maxAttempts[j]
           /\ videoGenerationStatus'[index[j]] = videoGenerationStatus[index[j]]
           /\ statusLog'[j] = statusLog[j]]_vars
\* two jobs for different shots are polling, the one at its second attempt
\* and the other at its first, each shot with its own status
C25_Witness ==
  \E i, j \in Jobs :
     /\ index[i] # index[j]
     /\ pc[i] = "wait" /\ attempts[i] = 2
     /\ pc[j] = "wait" /\ attempts[j] = 1
     /\ videoGenerationStatus[index[i]] = lastWrite[i]
     /\ videoGenerationStatus[index[j]] = lastWrite[j]
     /\ lastWrite[i] # lastWrite[j]

\* job j completes in this step: onVideosUpdate is called with its videoUrl
Completes(j) == pc[j] # "done" /\ pc'[j] = "done" /\ thrown'[j] = NoError
\* job j has completed
Completed(j) == pc[j] = "done" /\ thrown[j] = NoError /\ requests[j].videosUpdate = 1

\* C28: the completion of a job upserts only the entry of its shot: the
\* entry then refers to the job's binary and every other entry of the video
\* mapping keeps its value, so that after two concurrent jobs for different
\* shots have completed the mapping holds the result of each at its shot.
C28_CompletionUpsertsOwnEntry ==
  [][\A j \in Jobs :
        Completes(j)
        => /\ Resolve(videoUrls[index[j]])' = videoBlob[j]
           /\ \A k \in Shots \ {index[j]} : videoUrls'[k] = videoUrls[k]]_vars

\* C29: after two overlapping jobs for the same shot have completed, the
\* binary the video mapping refers to, the binary stored under
\* video_<index> and the binary of the stored thumbnail_<index> belong to
\* one of the two jobs.
C29_LastCompletionWinsConsistently ==
  \A i, j \in Jobs :
     (i # j /\ index[i] = index[j] /\ Completed(i) /\ Completed(j))
     => \E k \in {i, j} :
           /\ Resolve(videoUrls[index[k]]) = videoBlob[k]
           /\ blobStore[VideoId(index[k])] = videoBlob[k]
           /\ blobStore[ThumbnailId(index[k])] \in {NoBlob, ThumbnailOf(videoBlob[k])}

\* C26: when an entry of the video mapping that holds an object URL is
\* replaced by another object URL, the replaced URL is released: it is no
\* longer live after the step.
C26_SupersededUrlIsReleased ==
  [][\A i \in Shots :
        (/\ StartsWith(videoUrls[i], "blob:")
         /\ StartsWith(videoUrls'[i], "blob:")
         /\ videoUrls'[i] # videoUrls[i])
        => ~\E u \in objectUrls' : <<"blob:", ToString(u.id)>> = videoUrls[i]]_vars

====
